---- MODULE Spec2Model ----
(***************************************************************************)
(* Model of app.py, the Teapplix HD BOL generator.                         *)
(*                                                                         *)
(* Three specifications share the module:                                  *)
(*   SpecPure     the order-normalisation functions (summarize_packages,   *)
(*                _sum_group_totals, _qty_from_order, build_row_from_group)*)
(*                applied to bounded groups of raw orders;                 *)
(*   SpecOids     fetch_orders_by_oids, one HTTP request per step;         *)
(*   SpecSession  the Streamlit script: one action per button handler,     *)
(*                each a whole rerun of the script.                        *)
(*                                                                         *)
(* Python values:                                                          *)
(*   - a JSON scalar that the code converts with int()/float() is a record *)
(*     [t, v]: t = "none" (key absent or null), "bad" (a string that does  *)
(*     not parse as a number), "num" (a number or numeric string, v);      *)
(*   - a str is a sequence of one-character strings, so that strip(),      *)
(*     slicing and replace(" ", "") are computed, not assumed;             *)
(*   - pounds are kept in hundredths of a pound (oz_to_lb rounds to two    *)
(*     decimals), Python's round() is round-half-to-even.                  *)
(***************************************************************************)
EXTENDS Integers, Sequences, FiniteSets, TLC

VARIABLES
    \* ---- SpecPure ----
    group,              \* the input: a sequence of raw orders
    fn,                 \* the function applied last ("input" before any)
    ret,                \* what it returned (or that it raised)
    \* ---- SpecOids ----
    oids,               \* the cleaned identifier list of fetch_orders_by_oids
    oi,                 \* index into oids of the identifier being processed
    pc,                 \* position in fetch_orders_by_oids
    shipped,            \* loop variable shipped ("0" / "1")
    page,               \* loop variable page of the fallback scan
    ok,                 \* local flag ok
    results,            \* local list results
    calls,              \* history: the requests issued so far, with outcomes
    \* ---- SpecSession ----
    orders_days_raw,    \* st.session_state["orders_days_raw"]
    orders_search_raw,  \* st.session_state["orders_search_raw"]
    search_oids,        \* st.session_state["search_oids"]
    table_rows_override,\* st.session_state["table_rows_override"]
    table_rows,         \* the rows the last run of the script displayed
    made_files,         \* made_files of the last generate action
    gen_log,            \* history: per selected row of that action, what was done
    lastAction          \* the handler that ran last

pureVars    == <<group, fn, ret>>
oidsVars    == <<oids, oi, pc, shipped, page, ok, results, calls>>
sessionVars == <<orders_days_raw, orders_search_raw, search_oids,
                 table_rows_override, table_rows, made_files, gen_log,
                 lastAction>>
vars        == <<pureVars, oidsVars, sessionVars>>

-----------------------------------------------------------------------------
(* Bounds *)

MaxGroup == 2       \* orders per group in SpecPure
MaxPkgs  == 2       \* package entries per group in SpecPure
MaxOids  == 2       \* identifiers passed to fetch_orders_by_oids
MaxDays  == 2       \* largest day window offered (the code offers 1..7)

-----------------------------------------------------------------------------
(* Python scalars and strings *)

None    == [t |-> "none", v |-> 0]
Bad     == [t |-> "bad",  v |-> 0]
Num(n)  == [t |-> "num",  v |-> n]

\* bool(x) for a scalar: None, 0 and "" are falsy.
Truthy(x) == x.t = "bad" \/ (x.t = "num" /\ x.v # 0)

Max(a, b) == IF a >= b THEN a ELSE b

\* round(n / d) for d > 0, ties to the even neighbour (Python 3 round()).
RoundHalfEven(n, d) ==
    LET q == n \div d
        r == n % d
    IN  IF 2 * r < d THEN q
        ELSE IF 2 * r > d THEN q + 1
        ELSE IF q % 2 = 0 THEN q ELSE q + 1

\* int(x or dflt): the value, or that int() raised ValueError.
IntOr(x, dflt) ==
    IF ~Truthy(x) THEN [raised |-> FALSE, v |-> dflt]
    ELSE IF x.t = "bad" THEN [raised |-> TRUE, v |-> 0]
    ELSE [raised |-> FALSE, v |-> x.v]

IsSpace(c) == c = " "

RECURSIVE LStrip(_)
LStrip(s) == IF s # <<>> /\ IsSpace(Head(s)) THEN LStrip(Tail(s)) ELSE s

RECURSIVE RStrip(_)
RStrip(s) ==
    IF s # <<>> /\ IsSpace(s[Len(s)]) THEN RStrip(SubSeq(s, 1, Len(s) - 1)) ELSE s

\* str.strip()
Strip(s) == RStrip(LStrip(s))

\* s[:n]
Prefix(s, n) == SubSeq(s, 1, IF Len(s) < n THEN Len(s) ELSE n)

\* s.replace(" ", "")
RemoveSpaces(s) == SelectSeq(s, LAMBDA c : c # " ")

\* All sequences over S of length 0..n.
SeqUpTo(S, n) == UNION {[1..k -> S] : k \in 0..n}

-----------------------------------------------------------------------------
(* OrderNormalizer: oz_to_lb, summarize_packages, _first_item,             *)
(* _qty_from_order, _sum_group_totals                                      *)

\* oz_to_lb: round(float(oz)/16.0, 2) in hundredths of a pound, None when
\* float() raises.
oz_to_lb(oz) ==
    IF oz.t = "num" THEN Num(RoundHalfEven(oz.v * 100, 16)) ELSE None

\* One iteration of the loop of summarize_packages over entry sd, from the
\* accumulators acc = [raised, pkgs, lbC].
SummarizeStep(acc, sd) ==
    LET count == IntOr(sd.IdenticalPackageCount, 1)
        lbv   == oz_to_lb(sd.Weight)
        lb    == IF Truthy(lbv) THEN lbv.v ELSE 0
    IN  IF acc.raised \/ count.raised
        THEN [raised |-> TRUE, pkgs |-> 0, lbC |-> 0]
        ELSE [raised |-> FALSE,
              pkgs   |-> acc.pkgs + Max(1, count.v),
              lbC    |-> acc.lbC + lb * Max(1, count.v)]

RECURSIVE SummarizeLoop(_, _)
SummarizeLoop(acc, details) ==
    IF details = <<>> THEN acc
    ELSE SummarizeLoop(SummarizeStep(acc, Head(details)), Tail(details))

\* order.get("ShippingDetails") or []
DetailsOf(order) ==
    IF order.ShippingDetails.t = "list" THEN order.ShippingDetails.v ELSE <<>>

\* summarize_packages(order) -> (total_pkgs, int(round(total_lb))), or raises.
summarize_packages(order) ==
    LET acc == SummarizeLoop([raised |-> FALSE, pkgs |-> 0, lbC |-> 0],
                             DetailsOf(order))
    IN  [raised |-> acc.raised,
         pkgs   |-> acc.pkgs,
         lb     |-> IF acc.raised THEN 0 ELSE RoundHalfEven(acc.lbC, 100)]

NoItem == [ItemSKU |-> <<>>, Quantity |-> None]

\* _first_item(order): items[0] of a non-empty list, the dict itself, else {}.
_first_item(order) ==
    LET items == order.OrderItems
    IN  IF items.t = "list" /\ items.v # <<>> THEN items.v[1]
        ELSE IF items.t = "dict" THEN items.v[1]
        ELSE NoItem

\* _qty_from_order: int(it.get("Quantity") or 0), 0 when int() raises.
_qty_from_order(order) ==
    LET q == IntOr(_first_item(order).Quantity, 0)
    IN  IF q.raised THEN 0 ELSE q.v

\* _desc_value_from_order: f"{sku}Electric Fireplace".strip()
_desc_value_from_order(order) ==
    Strip(_first_item(order).ItemSKU \o <<"Electric Fireplace">>)

\* _sku8_from_order: sku[:8] if sku else ""
_sku8_from_order(order) == Prefix(_first_item(order).ItemSKU, 8)

\* One iteration of the loop of _sum_group_totals.
SumTotalsStep(acc, od) ==
    LET s == summarize_packages(od)
    IN  IF acc.raised \/ s.raised
        THEN [raised |-> TRUE, pkgs |-> 0, lb |-> 0]
        ELSE [raised |-> FALSE, pkgs |-> acc.pkgs + s.pkgs, lb |-> acc.lb + s.lb]

RECURSIVE SumTotalsLoop(_, _)
SumTotalsLoop(acc, g) ==
    IF g = <<>> THEN acc ELSE SumTotalsLoop(SumTotalsStep(acc, Head(g)), Tail(g))

\* _sum_group_totals(group) -> (total_pkgs, int(round(total_lb))), or raises.
\* total_lb is a sum of whole numbers, so the final round() changes nothing.
_sum_group_totals(g) ==
    SumTotalsLoop([raised |-> FALSE, pkgs |-> 0, lb |-> 0], g)

-----------------------------------------------------------------------------
(* Raw orders *)

\* A raw order as the remote service returns it.  n, Shipped and age belong to
\* the remote service's record (n tells two orders with equal fields apart).
MkOrder(n, txn, shp, age, cls, details, items, to) ==
    [n |-> n, OriginalTxnId |-> txn, Shipped |-> shp, age |-> age,
     ShipClass |-> cls, ShippingDetails |-> details, OrderItems |-> items,
     To |-> to]

\* A str-valued key: present with its characters, or absent / null.
Str(chars)  == [t |-> "str", s |-> chars]
NoStr       == [t |-> "none", s |-> <<>>]

\* (x or "")
OrEmpty(x)  == IF x.t = "str" THEN x.s ELSE <<>>

Absent      == [t |-> "none", v |-> <<>>]
ListOf(s)   == [t |-> "list", v |-> s]
DictOf(x)   == [t |-> "dict", v |-> <<x>>]

NoAddress   == [t |-> "none", Name |-> "", State |-> ""]
AddressOf(name, state) == [t |-> "dict", Name |-> name, State |-> state]

SKU == <<"S", "K", "U", "1", "2", "3", "4", "5", "6">>

Item(sku, q) == [ItemSKU |-> sku, Quantity |-> q]
Pkg(c, w)    == [IdenticalPackageCount |-> c, Weight |-> w]

-----------------------------------------------------------------------------
(* DocumentFieldBuilder: build_row_from_group *)

WAREHOUSES ==
    [k \in {"CA 91789", "NJ 08816"} |->
        IF k = "CA 91789"
        THEN [name |-> <<"F","e","s","t","i","v","a","l"," ","N","e","o"," ","C","A">>,
              sid  |-> "CA-001"]
        ELSE [name |-> <<"F","e","s","t","i","v","a","l"," ","N","e","o"," ","N","J">>,
              sid  |-> "NJ-001"]]

\* WAREHOUSES.get(wh_key, list(WAREHOUSES.values())[0])
WarehouseOf(wh_key) ==
    IF wh_key \in DOMAIN WAREHOUSES THEN WAREHOUSES[wh_key]
    ELSE WAREHOUSES["CA 91789"]

\* str(n) if n else ""
StrOrEmpty(n) == IF n # 0 THEN ToString(n) ELSE ""

\* Weight1 with the tier applied to the quantity itself, not to quantity - 1.
Weight1OfPerUnit(total_qty_sum) ==
    IF total_qty_sum <= 1 THEN "130 lbs"
    ELSE ToString(130 + total_qty_sum * 30) \o " lbs"

\* row["Weight1"]
Weight1Of(total_qty_sum) ==
    IF total_qty_sum <= 1 THEN "130 lbs"
    ELSE ToString(130 + (total_qty_sum - 1) * 30) \o " lbs"

\* One iteration of the line-item loop of build_row_from_group:
\* acc = [Desc, HU_QTY, total_qty_sum], od_item the order at the next index.
LineItemStep(acc, od_item) ==
    LET desc_val == _desc_value_from_order(od_item)
        qty      == _qty_from_order(od_item)
    IN  IF desc_val # <<>>
        THEN [Desc          |-> Append(acc.Desc, desc_val),
              HU_QTY        |-> Append(acc.HU_QTY, StrOrEmpty(qty)),
              total_qty_sum |-> acc.total_qty_sum + qty]
        ELSE [Desc          |-> Append(acc.Desc, <<>>),
              HU_QTY        |-> Append(acc.HU_QTY, ""),
              total_qty_sum |-> acc.total_qty_sum]

RECURSIVE LineItemLoop(_, _)
LineItemLoop(acc, g) ==
    IF g = <<>> THEN acc ELSE LineItemLoop(LineItemStep(acc, Head(g)), Tail(g))

RaisedRow ==
    [raised |-> TRUE, ToName |-> "", FromSIDNum |-> "", SCAC |-> <<>>,
     TotalPkgs |-> "", Total_Weight |-> "", Desc |-> <<>>, HU_QTY |-> <<>>,
     NumPkgs1 |-> "", Weight1 |-> ""]

\* build_row_from_group(oid, group, wh_key): the fields of the row that are
\* derived from the group (the fixed bill-to fields and the date are left out).
build_row_from_group(oid, g, wh_key) ==
    LET first  == g[1]
        totals == _sum_group_totals(g)
        WH     == WarehouseOf(wh_key)
        lines  == LineItemLoop([Desc |-> <<>>, HU_QTY |-> <<>>, total_qty_sum |-> 0], g)
    IN  IF totals.raised THEN RaisedRow
        ELSE [raised       |-> FALSE,
              ToName       |-> IF first.To.t = "dict" THEN first.To.Name ELSE "",
              FromSIDNum   |-> WH.sid,
              SCAC         |-> Strip(OrEmpty(first.ShipClass)),
              TotalPkgs    |-> StrOrEmpty(totals.pkgs),
              Total_Weight |-> StrOrEmpty(totals.lb),
              Desc         |-> lines.Desc,
              HU_QTY       |-> lines.HU_QTY,
              NumPkgs1     |-> ToString(lines.total_qty_sum),
              Weight1      |-> Weight1Of(lines.total_qty_sum)]

-----------------------------------------------------------------------------
(* SpecPure: the functions above applied to bounded groups *)

\* Package entries: every kind of count and every kind of weight occurs.
Entries ==
    {Pkg(None, Num(32)), Pkg(Bad, Num(32)), Pkg(Num(0), Num(7)), Pkg(Num(0 - 1), None),
     Pkg(Num(2), Num(7)), Pkg(None, Bad), Pkg(None, Num(0 - 32))}

Quantities == {None, Bad, Num(0), Num(1), Num(2), Num(3)}

\* Line items as nothing, a single object, an empty list, a list.
ItemShapes ==
    {Absent, ListOf(<<>>), DictOf(Item(SKU, Num(1))), DictOf(Item(SKU, Bad)),
     ListOf(<<Item(<<>>, Num(2)), Item(SKU, Num(3))>>)}
        \cup {ListOf(<<Item(SKU, q)>>) : q \in Quantities}

PureOrder(details, items, to) ==
    MkOrder(0, Str(<<"P", "O">>), "0", 0, Str(<<"E", "X", "L", "A">>), details, items, to)

\* Package lists with exactly j entries (absent and empty both have none).
DetailsWith(j) ==
    IF j = 0 THEN {Absent, ListOf(<<>>)} ELSE {ListOf(s) : s \in [1..j -> Entries]}

\* Groups of k orders whose package lists hold at most b entries together;
\* the line items and the address are the usual ones.
RECURSIVE PkgGroups(_, _)
PkgGroups(k, b) ==
    IF k = 0 THEN {<<>>}
    ELSE UNION {
           {<<PureOrder(d, ListOf(<<Item(SKU, Num(1))>>), AddressOf("N", "CA"))>> \o rest :
                d \in DetailsWith(j), rest \in PkgGroups(k - 1, b - j)}
           : j \in 0..b}

\* Groups of k orders whose line items and address vary; one 32 oz package each.
ItemGroups(k) ==
    [1..k -> {PureOrder(ListOf(<<Pkg(None, Num(32))>>), it, to) :
                it \in ItemShapes, to \in {NoAddress, AddressOf("N", "CA")}}]

PureGroups ==
    UNION {PkgGroups(k, MaxPkgs) \cup ItemGroups(k) : k \in 1..MaxGroup}

NoOids      == <<>>
OidsIdle    == /\ oids = NoOids /\ oi = 0 /\ pc = "off" /\ shipped = "0"
               /\ page = 0 /\ ok = FALSE /\ results = <<>> /\ calls = <<>>
SessionIdle == /\ orders_days_raw = Absent /\ orders_search_raw = Absent
               /\ search_oids = <<>> /\ table_rows_override = Absent
               /\ table_rows = <<>> /\ made_files = <<>> /\ gen_log = <<>>
               /\ lastAction = "off"

PureIdle    == /\ group = <<>> /\ fn = "off" /\ ret = None

InitPure ==
    /\ group \in PureGroups
    /\ fn = "input"
    /\ ret = None
    /\ OidsIdle
    /\ SessionIdle

\* summarize_packages(group[i])
CallSummarizePackages ==
    /\ fn = "input"
    /\ \E i \in 1..Len(group) :
          ret' = [i |-> i, r |-> summarize_packages(group[i])]
    /\ fn' = "summarize_packages"
    /\ UNCHANGED <<group, oidsVars, sessionVars>>

\* _first_item(group[i]) and _qty_from_order(group[i])
CallQtyFromOrder ==
    /\ fn = "input"
    /\ \E i \in 1..Len(group) :
          ret' = [i |-> i, item |-> _first_item(group[i]),
                  qty |-> _qty_from_order(group[i])]
    /\ fn' = "_qty_from_order"
    /\ UNCHANGED <<group, oidsVars, sessionVars>>

\* _sum_group_totals(group)
CallSumGroupTotals ==
    /\ fn = "input"
    /\ ret' = _sum_group_totals(group)
    /\ fn' = "_sum_group_totals"
    /\ UNCHANGED <<group, oidsVars, sessionVars>>

\* build_row_from_group(oid, group, wh_key), wh_key also an unknown key
CallBuildRow ==
    /\ fn = "input"
    /\ \E wh_key \in {"CA 91789", "NJ 08816", "??"} :
          ret' = build_row_from_group(<<"P", "O">>, group, wh_key)
    /\ fn' = "build_row_from_group"
    /\ UNCHANGED <<group, oidsVars, sessionVars>>

NextPure ==
    \/ CallSummarizePackages
    \/ CallQtyFromOrder
    \/ CallSumGroupTotals
    \/ CallBuildRow

SpecPure == InitPure /\ [][NextPure]_vars

-----------------------------------------------------------------------------
(* The remote order service, as the requests of the code see it *)

\* Orders per page.  The code asks for 500 (PAGE_SIZE, and "500" in the
\* direct query); the model pages by 2 so that full, short and empty pages
\* all occur with a handful of orders.
PAGE_SIZE == 2

StdDetails == ListOf(<<Pkg(None, Num(32))>>)
StdItems   == ListOf(<<Item(SKU, Num(1))>>)
StdTo      == AddressOf("N", "CA")

EXLA    == <<"E", "X", "L", "A">>
UNSP_CG == <<"U", "N", "S", "P", "_", "C", "G">>

\* The orders the service holds: n, OriginalTxnId, Shipped, age in days,
\* ShipClass.  "AB " and "AB" trim to the same identifier; " " is blank;
\* "A B" differs from "AB" by an inner space; "C" has the excluded class;
\* order 6 has no identifier, class, packages, items or address at all.
Remote ==
    << MkOrder(1, Str(<<"A", "B", " ">>), "0", 1, Str(EXLA), StdDetails, StdItems, StdTo),
       MkOrder(2, Str(<<"A", "B">>),      "1", 2, Str(EXLA), StdDetails, StdItems, StdTo),
       MkOrder(3, Str(<<" ">>),           "0", 1, Str(EXLA), StdDetails, StdItems, StdTo),
       MkOrder(4, Str(<<"A", " ", "B">>), "0", 2, Str(EXLA), StdDetails, StdItems, StdTo),
       MkOrder(5, Str(<<"C">>),           "0", 1, Str(UNSP_CG), StdDetails, StdItems, StdTo),
       MkOrder(6, NoStr,                  "0", 2, NoStr, Absent, Absent, NoAddress) >>

\* The orders matching Shipped = shp whose payment date is within the last
\* `days` days.
RemoteWindow(shp, days) ==
    SelectSeq(Remote, LAMBDA o : o.Shipped = shp /\ o.age <= days)

\* Page number pg (from 1) of a result list.
PageOf(list, pg) ==
    LET lo == (pg - 1) * PAGE_SIZE + 1
        hi == IF pg * PAGE_SIZE < Len(list) THEN pg * PAGE_SIZE ELSE Len(list)
    IN  IF lo > Len(list) THEN <<>> ELSE SubSeq(list, lo, hi)

\* What a 200 answer to the direct query (OriginalTxnId = oid, no dates,
\* page 1) may carry: the orders the service filtered by that identifier, or,
\* when the service ignores the parameter, page 1 of all orders.
DirectPayload(oid, shp, ignored) ==
    IF ignored
    THEN PageOf(SelectSeq(Remote, LAMBDA o : o.Shipped = shp), 1)
    ELSE SelectSeq(Remote, LAMBDA o : o.Shipped = shp /\ Strip(OrEmpty(o.OriginalTxnId)) = oid)

DirectPayloads(oid, shp) == {DirectPayload(oid, shp, ignored) : ignored \in BOOLEAN}

-----------------------------------------------------------------------------
(* fetch_orders_by_oids, one request per step (SpecOids) *)

\* [o.strip() for o in oids if o.strip()]
RECURSIVE CleanOids(_)
CleanOids(raw) ==
    IF raw = <<>> THEN <<>>
    ELSE IF Strip(Head(raw)) # <<>> THEN <<Strip(Head(raw))>> \o CleanOids(Tail(raw))
    ELSE CleanOids(Tail(raw))

\* The client-side filter of both paths:
\* (o.get("OriginalTxnId") or "").strip() == oid
MatchesOid(o, oid) == Strip(OrEmpty(o.OriginalTxnId)) = oid

Matching(orders, oid) == SelectSeq(orders, LAMBDA o : MatchesOid(o, oid))

\* Lines a caller may pass.
OidLines == {<<"A", "B">>, <<" ", "C">>, <<" ">>}

Call(kind, oid, shp, pg, outcome, orders, added) ==
    [kind |-> kind, oid |-> oid, shipped |-> shp, page |-> pg,
     outcome |-> outcome, orders |-> orders, added |-> added]

InitOids ==
    /\ oids \in SeqUpTo(OidLines, MaxOids)
    /\ oi = 0
    /\ pc = "call"
    /\ shipped = "0"
    /\ page = 0
    /\ ok = FALSE
    /\ results = <<>>
    /\ calls = <<>>
    /\ PureIdle
    /\ SessionIdle

\* Lines 239-242: clean the list, return at once when nothing is left.
OidsEnter ==
    /\ pc = "call"
    /\ oids' = CleanOids(oids)
    /\ IF CleanOids(oids) = <<>>
       THEN pc' = "done" /\ oi' = 0
       ELSE pc' = "direct" /\ oi' = 1
    /\ shipped' = "0"
    /\ ok' = FALSE
    /\ UNCHANGED <<page, results, calls, pureVars, sessionVars>>

\* After the work on oids[oi] is over: the next identifier, or return.
NextOidPc == IF oi < Len(oids) THEN "direct" ELSE "done"
NextOidOi == IF oi < Len(oids) THEN oi + 1 ELSE oi

\* Lines 258-266: the direct request answered 200 with a decodable body.
DirectOk ==
    /\ pc = "direct"
    /\ \E orders \in DirectPayloads(oids[oi], shipped) :
          /\ results' = results \o Matching(orders, oids[oi])
          /\ calls' = Append(calls, Call("direct", oids[oi], shipped, 1, "200",
                                         orders, Matching(orders, oids[oi])))
    /\ ok' = TRUE
    /\ IF shipped = "0"
       THEN /\ shipped' = "1"
            /\ UNCHANGED <<pc, oi>>
       ELSE /\ shipped' = "0"
            /\ pc' = NextOidPc
            /\ oi' = NextOidOi
    /\ UNCHANGED <<oids, page, pureVars, sessionVars>>

\* Lines 267-276: the direct request answered another status ("non200"), or
\* requests.get / r.json() raised ("exc"): ok = False, break, and since
\* not ok the 90-day scan starts with shipped "0", page 1.
DirectFail ==
    /\ pc = "direct"
    /\ \E outcome \in {"non200", "exc"} :
          calls' = Append(calls, Call("direct", oids[oi], shipped, 1, outcome, <<>>, <<>>))
    /\ ok' = FALSE
    /\ pc' = "scan"
    /\ shipped' = "0"
    /\ page' = 1
    /\ UNCHANGED <<oids, oi, results, pureVars, sessionVars>>

\* Leaving the while loop of the scan: the other shipped state, or the
\* next identifier.
ScanBreak ==
    IF shipped = "0"
    THEN /\ shipped' = "1"
         /\ page' = 1
         /\ UNCHANGED <<pc, oi>>
    ELSE /\ shipped' = "0"
         /\ page' = 0
         /\ pc' = NextOidPc
         /\ oi' = NextOidOi

\* Lines 290-305: a page of the scan answered 200 with a decodable body.
ScanPage ==
    /\ pc = "scan"
    /\ LET orders == PageOf(RemoteWindow(shipped, 90), page)
           added  == Matching(orders, oids[oi])
       IN  /\ calls' = Append(calls, Call("scan", oids[oi], shipped, page, "200",
                                          orders, added))
           /\ IF orders = <<>>
              THEN results' = results /\ ScanBreak
              ELSE /\ results' = results \o added
                   /\ IF Len(orders) < PAGE_SIZE
                      THEN ScanBreak
                      ELSE page' = page + 1 /\ UNCHANGED <<pc, oi, shipped>>
    /\ UNCHANGED <<oids, ok, pureVars, sessionVars>>

\* Lines 291-296: a page answered another status, or its body did not
\* decode: break.
ScanStop ==
    /\ pc = "scan"
    /\ \E outcome \in {"non200", "badjson"} :
          calls' = Append(calls, Call("scan", oids[oi], shipped, page, outcome, <<>>, <<>>))
    /\ ScanBreak
    /\ UNCHANGED <<oids, ok, results, pureVars, sessionVars>>

\* Line 290: requests.get raised (timeout, connection error).  Nothing
\* catches it: fetch_orders_by_oids ends by the exception.
ScanRaise ==
    /\ pc = "scan"
    /\ calls' = Append(calls, Call("scan", oids[oi], shipped, page, "exc", <<>>, <<>>))
    /\ pc' = "raised"
    /\ UNCHANGED <<oids, oi, shipped, page, ok, results, pureVars, sessionVars>>

NextOids ==
    \/ OidsEnter
    \/ DirectOk
    \/ DirectFail
    \/ ScanPage
    \/ ScanStop
    \/ ScanRaise

SpecOids == InitOids /\ [][NextOids]_vars

-----------------------------------------------------------------------------
(* GroupAggregator: group_by_original_txn, and the display rows *)

\* A dict that keeps insertion order: a sequence of [key, members].
KeyIndex(grouped, key) ==
    IF \E i \in 1..Len(grouped) : grouped[i].key = key
    THEN CHOOSE i \in 1..Len(grouped) : grouped[i].key = key
    ELSE 0

\* grouped.setdefault(key, []).append(order)
SetDefaultAppend(grouped, key, order) ==
    LET i == KeyIndex(grouped, key)
    IN  IF i = 0 THEN Append(grouped, [key |-> key, members |-> <<order>>])
        ELSE [grouped EXCEPT ![i].members = Append(@, order)]

\* The loop body of group_by_original_txn with the key left untrimmed.
GroupStepUntrimmed(grouped, order) ==
    SetDefaultAppend(grouped, OrEmpty(order.OriginalTxnId), order)

\* The loop body of group_by_original_txn.
GroupStep(grouped, order) ==
    SetDefaultAppend(grouped, Strip(OrEmpty(order.OriginalTxnId)), order)

RECURSIVE GroupLoop(_, _)
GroupLoop(grouped, orders) ==
    IF orders = <<>> THEN grouped
    ELSE GroupLoop(GroupStep(grouped, Head(orders)), Tail(orders))

group_by_original_txn(orders) == GroupLoop(<<>>, orders)

\* grouped_all.get(oid, [])
GroupGet(grouped, oid) ==
    IF KeyIndex(grouped, oid) = 0 THEN <<>> ELSE grouped[KeyIndex(grouped, oid)].members

\* The row appended at lines 447-460 (the order date column is left out).
RowOf(oid, g) ==
    LET first == g[1]
    IN  [Select        |-> TRUE,
         Warehouse     |-> "CA 91789",
         OriginalTxnId |-> oid,
         SKU8          |-> _sku8_from_order(first),
         SCAC          |-> Strip(OrEmpty(first.ShipClass)),
         ToState       |-> IF first.To.t = "dict" THEN first.To.State ELSE ""]

\* The loop body of lines 443-460 without the `not oid` test.
RowStepKeepBlank(acc, entry) ==
    IF entry.key \in acc.seen THEN acc
    ELSE [seen |-> acc.seen \cup {entry.key},
          rows |-> Append(acc.rows, RowOf(entry.key, entry.members))]

\* The loop body of lines 443-460: skip the empty key and keys already seen.
RowStep(acc, entry) ==
    IF entry.key = <<>> \/ entry.key \in acc.seen THEN acc
    ELSE [seen |-> acc.seen \cup {entry.key},
          rows |-> Append(acc.rows, RowOf(entry.key, entry.members))]

RECURSIVE RowLoop(_, _)
RowLoop(acc, grouped) ==
    IF grouped = <<>> THEN acc ELSE RowLoop(RowStep(acc, Head(grouped)), Tail(grouped))

\* Lines 441-460: the freshly built table_rows.
FreshRows(grouped) == RowLoop([seen |-> {}, rows |-> <<>>], grouped).rows

-----------------------------------------------------------------------------
(* The two fetch functions as the button handlers call them *)

\* What fetch_orders_by_oids adds for one identifier: how = "direct" (both
\* direct calls answer 200), "fallback" (the first direct call fails),
\* "direct0_fallback" (shipped 0 answers 200, shipped 1 fails); ignored says
\* whether the service ignores the OriginalTxnId parameter.  Every page of a
\* scan answers 200.
OidAdded(oid, how, ignored) ==
    LET d0   == Matching(DirectPayload(oid, "0", ignored), oid)
        d1   == Matching(DirectPayload(oid, "1", ignored), oid)
        scan == Matching(RemoteWindow("0", 90), oid) \o Matching(RemoteWindow("1", 90), oid)
    IN  CASE how = "direct"           -> d0 \o d1
          [] how = "fallback"         -> scan
          [] how = "direct0_fallback" -> d0 \o scan

OidHows == {"direct", "fallback", "direct0_fallback"}

RECURSIVE OidsLoop(_, _, _, _)
OidsLoop(list, i, hows, ignored) ==
    IF i > Len(list) THEN <<>>
    ELSE OidAdded(list[i], hows[i], ignored) \o OidsLoop(list, i + 1, hows, ignored)

\* fetch_orders_by_oids(oids) when it returns, the service behaving as
\* hows / ignored say.
fetch_orders_by_oids(list, hows, ignored) ==
    OidsLoop(CleanOids(list), 1, hows, ignored)

\* (od.get("ShipClass") or "").strip().upper() != "UNSP_CG"
KeptByDays(o) == Strip(OrEmpty(o.ShipClass)) # UNSP_CG

\* The while loop of fetch_orders_by_days from page pg: page failAt answers
\* a non-200 status or an undecodable body (0: no page does).
RECURSIVE DaysLoop(_, _, _, _)
DaysLoop(list, pg, failAt, all_orders) ==
    LET orders == PageOf(list, pg)
    IN  IF pg = failAt THEN all_orders
        ELSE IF orders = <<>> THEN all_orders
        ELSE IF Len(orders) < PAGE_SIZE
             THEN all_orders \o SelectSeq(orders, KeptByDays)
        ELSE DaysLoop(list, pg + 1, failAt, all_orders \o SelectSeq(orders, KeptByDays))

\* fetch_orders_by_days(days) when it returns.
fetch_orders_by_days(days, failAt) == DaysLoop(RemoteWindow("0", days), 1, failAt, <<>>)

-----------------------------------------------------------------------------
(* The Streamlit script (SpecSession): every action is one run of it *)

\* if x: x a list or None
ListTruthy(x) == x.t = "list" /\ x.v # <<>>

\* Lines 428-432: all_orders
AllOrders(days_raw, search_raw) ==
    (IF ListTruthy(days_raw) THEN days_raw.v ELSE <<>>)
        \o (IF ListTruthy(search_raw) THEN search_raw.v ELSE <<>>)

\* Lines 434-460: table_rows of a run (nothing is displayed without orders).
TableRows(days_raw, search_raw, override) ==
    IF AllOrders(days_raw, search_raw) = <<>> THEN <<>>
    ELSE IF override.t = "list" THEN override.v
    ELSE FreshRows(group_by_original_txn(AllOrders(days_raw, search_raw)))

\* The text area: lines the user may have typed.
PoLines == {<<"A", "B">>, <<" ", "C">>, <<" ">>, <<"A", "B", " ">>}

\* {line.strip() for line in po_text.splitlines() if line.strip()}
OidSet(lines) == {Strip(l) : l \in {x \in lines : Strip(x) # <<>>}}

\* list(<set>): the elements in some order.
ListsOfSet(S) ==
    {f \in [1..Cardinality(S) -> S] : \A i, j \in 1..Cardinality(S) : i # j => f[i] # f[j]}

\* The identifier sets the text area can yield, at most MaxOids identifiers.
TypedOidSets ==
    {S \in {OidSet(lines) : lines \in SUBSET PoLines} : Cardinality(S) <= MaxOids}

\* Lines 414-417: what the handler stores for the identifier list, over the
\* ways the service may behave.
SearchReturns(list) ==
    IF list # <<>>
    THEN {fetch_orders_by_oids(list, hows, ignored) :
             hows \in [1..Len(list) -> OidHows], ignored \in BOOLEAN}
    ELSE {<<>>}

Days == 1..MaxDays

InitSession ==
    /\ orders_days_raw = Absent
    /\ orders_search_raw = Absent
    /\ search_oids = <<>>
    /\ table_rows_override = Absent
    /\ table_rows = <<>>
    /\ made_files = <<>>
    /\ gen_log = <<>>
    /\ lastAction = "start"
    /\ PureIdle
    /\ OidsIdle

\* Lines 411-417, then the rest of the script: the "查詢 PO" button.
SearchPO ==
    /\ \E S \in TypedOidSets : \E list \in ListsOfSet(S) :
          /\ search_oids' = list
          /\ \E found \in SearchReturns(list) :
                /\ orders_search_raw' = ListOf(found)
                /\ table_rows' = TableRows(orders_days_raw, ListOf(found),
                                           table_rows_override)
    /\ made_files' = <<>>
    /\ gen_log' = <<>>
    /\ lastAction' = "search"
    /\ UNCHANGED <<orders_days_raw, table_rows_override, pureVars, oidsVars>>

\* Lines 411-415 when a request of the scan raises inside
\* fetch_orders_by_oids: the run ends there, nothing else is stored or drawn.
SearchPORaises ==
    \E S \in TypedOidSets :
      /\ S # {}
      /\ \E list \in ListsOfSet(S) : search_oids' = list
      /\ table_rows' = <<>>
      /\ made_files' = <<>>
      /\ gen_log' = <<>>
      /\ lastAction' = "search_raised"
      /\ UNCHANGED <<orders_days_raw, orders_search_raw, table_rows_override,
                     pureVars, oidsVars>>

\* Lines 420-422, then the rest of the script: the "抓取訂單" button.
FetchOrders ==
    \E got \in {fetch_orders_by_days(days, failAt) : days \in Days, failAt \in 0..3} :
      /\ orders_days_raw' = ListOf(got)
      /\ table_rows_override' = Absent
      /\ table_rows' = TableRows(ListOf(got), orders_search_raw, Absent)
      /\ made_files' = <<>>
      /\ gen_log' = <<>>
      /\ lastAction' = "fetch"
      /\ UNCHANGED <<orders_search_raw, search_oids, pureVars, oidsVars>>

\* Line 421 when requests.get raises inside fetch_orders_by_days: the run ends
\* before line 422.
FetchOrdersRaises ==
    /\ table_rows' = <<>>
    /\ made_files' = <<>>
    /\ gen_log' = <<>>
    /\ lastAction' = "fetch_raised"
    /\ UNCHANGED <<orders_days_raw, orders_search_raw, search_oids,
                   table_rows_override, pureVars, oidsVars>>

\* Lines 472-481: new_rows
RECURSIVE BulkRows(_, _, _)
BulkRows(rows, bulk_wh, apply_to) ==
    IF rows = <<>> THEN <<>>
    ELSE LET r == Head(rows)
             r2 == IF apply_to = "all" \/ r.Select
                   THEN [r EXCEPT !.Warehouse = bulk_wh] ELSE r
         IN  <<r2>> \o BulkRows(Tail(rows), bulk_wh, apply_to)

\* Lines 471-484: the "套用批次倉庫" button, drawn only when there are orders.
ApplyBulkWarehouse ==
    /\ AllOrders(orders_days_raw, orders_search_raw) # <<>>
    /\ \E bulk_wh \in DOMAIN WAREHOUSES, apply_to \in {"selected", "all"} :
          LET new_rows == BulkRows(TableRows(orders_days_raw, orders_search_raw,
                                             table_rows_override), bulk_wh, apply_to)
          IN  /\ table_rows_override' = ListOf(new_rows)
              /\ table_rows' = new_rows
    /\ made_files' = <<>>
    /\ gen_log' = <<>>
    /\ lastAction' = "bulk"
    /\ UNCHANGED <<orders_days_raw, orders_search_raw, search_oids, pureVars, oidsVars>>

\* str.upper() on the letters that occur.
UpperChar(c) ==
    CASE c = "e" -> "E" [] c = "s" -> "S" [] c = "t" -> "T" [] c = "i" -> "I"
      [] c = "v" -> "V" [] c = "a" -> "A" [] c = "l" -> "L" [] c = "o" -> "O"
      [] OTHER -> c

Upper(s) == [i \in 1..Len(s) |-> UpperChar(s[i])]

\* x or dflt, for strings
OrStr(x, dflt) == IF x # <<>> THEN x ELSE dflt

\* Lines 521-524: the file name of the document of one selected row.
FileName(row_preview, g, WH) ==
    LET oid  == row_preview.OriginalTxnId
        sku8 == OrStr(row_preview.SKU8,
                      Prefix(OrStr(_sku8_from_order(g[1]), <<"N", "O", "S", "K", "U">>), 8))
        wh2  == IF WH.name # <<>> THEN Upper(Prefix(WH.name, 2)) ELSE <<"W", "H">>
        scac == OrStr(Upper(row_preview.SCAC), <<"N", "O", "S", "C", "A", "C">>)
    IN  RemoveSpaces(<<"B", "O", "L", "_">> \o oid \o <<"_">> \o sku8 \o <<"_">>
                        \o wh2 \o <<"_">> \o scac \o <<".", "p", "d", "f">>)

LogEntry(oid, what, out_path) == [oid |-> oid, what |-> what, out_path |-> out_path]

\* Lines 512-528: the loop over the selected rows; acc = [made, log].  A row
\* whose group is missing is skipped; an exception of build_row_from_group
\* ends the loop.
RECURSIVE GenerateLoop(_, _, _)
GenerateLoop(acc, selected, grouped_all) ==
    IF selected = <<>> THEN acc
    ELSE LET row_preview == Head(selected)
             oid == row_preview.OriginalTxnId
             g   == GroupGet(grouped_all, oid)
             built == build_row_from_group(oid, g, row_preview.Warehouse)
             out_path == FileName(row_preview, g, WarehouseOf(row_preview.Warehouse))
         IN  IF g = <<>>
             THEN GenerateLoop([made |-> acc.made,
                                log  |-> Append(acc.log, LogEntry(oid, "skipped", <<>>))],
                               Tail(selected), grouped_all)
             ELSE IF built.raised
             THEN [made |-> acc.made,
                   log  |-> Append(acc.log, LogEntry(oid, "raised", <<>>))]
             ELSE GenerateLoop([made |-> Append(acc.made, out_path),
                                log  |-> Append(acc.log, LogEntry(oid, "made", out_path))],
                               Tail(selected), grouped_all)

\* Lines 505-545: the "產生 BOL" button, the template BOL.pdf being in
\* place (fill_pdf does not raise).  `edited` is table_rows with the
\* Select and Warehouse cells as the user left them in the data editor; the
\* Warehouse cells of rows left unselected are never read.
GenerateBOL ==
    /\ AllOrders(orders_days_raw, orders_search_raw) # <<>>
    /\ LET rows == TableRows(orders_days_raw, orders_search_raw, table_rows_override)
           grouped_all == group_by_original_txn(AllOrders(orders_days_raw, orders_search_raw))
           Picked(sel) == SelectSeq([i \in 1..Len(rows) |-> [rows[i] EXCEPT !.Select = sel[i]]],
                                    LAMBDA r : r.Select)
           Selections ==
               UNION {{[i \in 1..Len(Picked(sel)) |-> [Picked(sel)[i] EXCEPT !.Warehouse = wh[i]]] :
                          wh \in [1..Len(Picked(sel)) -> DOMAIN WAREHOUSES]} :
                      sel \in [1..Len(rows) -> BOOLEAN]}
       IN  /\ \E out \in {GenerateLoop([made |-> <<>>, log |-> <<>>], selected, grouped_all) :
                             selected \in Selections} :
                 /\ made_files' = out.made
                 /\ gen_log' = out.log
           /\ table_rows' = rows
    /\ lastAction' = "generate"
    /\ UNCHANGED <<orders_days_raw, orders_search_raw, search_oids,
                   table_rows_override, pureVars, oidsVars>>

\* Any other interaction (a selectbox, a cell edit): the script runs with no
\* button pressed.
Rerun ==
    /\ table_rows' = TableRows(orders_days_raw, orders_search_raw, table_rows_override)
    /\ made_files' = <<>>
    /\ gen_log' = <<>>
    /\ lastAction' = "rerun"
    /\ UNCHANGED <<orders_days_raw, orders_search_raw, search_oids,
                   table_rows_override, pureVars, oidsVars>>

NextSession ==
    \/ SearchPO
    \/ SearchPORaises
    \/ FetchOrders
    \/ FetchOrdersRaises
    \/ ApplyBulkWarehouse
    \/ GenerateBOL
    \/ Rerun

SpecSession == InitSession /\ [][NextSession]_vars

-----------------------------------------------------------------------------
(* Properties of the normalisation functions (SpecPure) *)

RECURSIVE SumOver(_, _)
SumOver(F(_), s) == IF s = <<>> THEN 0 ELSE F(Head(s)) + SumOver(F, Tail(s))

\* Pounds of one package entry times its count floored at 1, in hundredths.
EntryLbC(sd) ==
    LET c  == IF sd.IdenticalPackageCount.t = "num" THEN sd.IdenticalPackageCount.v ELSE 1
        lb == IF sd.Weight.t = "num" THEN RoundHalfEven(sd.Weight.v * 100, 16) ELSE 0
    IN  lb * Max(1, c)

OrderLbC(order) == SumOver(EntryLbC, DetailsOf(order))

\* C4: the total pounds of a group is the sum, over all member orders and all
\* their package entries, of (entry pounds x count floored at 1), rounded to
\* the nearest integer once, after the summation.
C4_RoundedOnce ==
    (fn = "_sum_group_totals" /\ ~ret.raised)
        => ret.lb = RoundHalfEven(SumOver(OrderLbC, group), 100)

\* C5: summarize_packages, _sum_group_totals and build_row_from_group never
\* end in an exception, whatever sub-structure of a raw order is missing or
\* malformed.
C5_NeverRaises ==
    /\ fn = "summarize_packages" => ~ret.r.raised
    /\ fn = "_sum_group_totals" => ~ret.raised
    /\ fn = "build_row_from_group" => ~ret.raised

\* C8: NumPkgs1 is the sum of the first-line-item quantities of the member
\* orders, and Weight1 is "130 lbs" for a total of at most 1 and
\* "{130 + (total - 1) * 30} lbs" above (0, 1, 2, 5 give 130, 130, 160, 250).
C8_WeightTier ==
    (fn = "build_row_from_group" /\ ~ret.raised) =>
        LET total == SumOver(_qty_from_order, group)
        IN  /\ ret.NumPkgs1 = ToString(total)
            /\ total <= 1 => ret.Weight1 = "130 lbs"
            /\ total > 1 => ret.Weight1 = ToString(130 + (total - 1) * 30) \o " lbs"
            /\ total = 2 => ret.Weight1 = "160 lbs"
            /\ total = 5 => ret.Weight1 = "250 lbs"

\* C8 witness: a two-order group with quantities 3 and 2 got "250 lbs".
C8_Witness ==
    /\ fn = "build_row_from_group"
    /\ Len(group) = 2
    /\ _qty_from_order(group[1]) = 3
    /\ _qty_from_order(group[2]) = 2
    /\ ret.NumPkgs1 = "5"
    /\ ret.Weight1 = "250 lbs"

\* C9: the package count is at least the number of package entries and the
\* pound total is at least 0, for one order and for a group.
C9_SummaryBounds ==
    /\ (fn = "summarize_packages" /\ ~ret.r.raised) =>
          /\ ret.r.pkgs >= Len(DetailsOf(group[ret.i]))
          /\ ret.r.lb >= 0
    /\ (fn = "_sum_group_totals" /\ ~ret.raised) =>
          /\ ret.pkgs >= SumOver(LAMBDA o : Len(DetailsOf(o)), group)
          /\ ret.lb >= 0

-----------------------------------------------------------------------------
(* Properties of fetch_orders_by_oids (SpecOids) *)

\* Call k is a page on which a scan may end according to C3: a non-200
\* answer, or a 200 answer with an empty or short page.
StopPage(k) ==
    \/ calls[k].outcome = "non200"
    \/ calls[k].outcome = "200" /\ Len(calls[k].orders) < PAGE_SIZE

\* Calls k-pg+1 .. k are the scan of (oid, shp) from page 1 to page pg, every
\* page before the last a full 200 page, the last a stop page.
FullScanEndingAt(k, oid, shp) ==
    LET pg == calls[k].page
    IN  /\ calls[k].kind = "scan" /\ calls[k].oid = oid /\ calls[k].shipped = shp
        /\ StopPage(k)
        /\ k - pg >= 0
        /\ \A q \in 1..(pg - 1) :
              LET c == calls[k - pg + q]
              IN  /\ c.kind = "scan" /\ c.oid = oid /\ c.shipped = shp /\ c.page = q
                  /\ c.outcome = "200" /\ Len(c.orders) = PAGE_SIZE

\* C3: per identifier the direct query comes first (shipped 0, then 1);
\* whenever a direct call does not return 200 the 90-day scan is run for that
\* identifier over both shipped states, each paged until a non-200, empty or
\* short page; every order added has a trimmed OriginalTxnId equal to the
\* identifier.
C3_FallbackSearch ==
    /\ \A k \in 1..Len(calls) :
          /\ calls[k].kind = "scan" =>
                \E j \in 1..(k - 1) :
                    /\ calls[j].kind = "direct" /\ calls[j].oid = calls[k].oid
                    /\ calls[j].outcome # "200"
          /\ (calls[k].kind = "direct" /\ calls[k].shipped = "1") =>
                /\ k > 1
                /\ calls[k - 1].kind = "direct" /\ calls[k - 1].oid = calls[k].oid
                /\ calls[k - 1].shipped = "0" /\ calls[k - 1].outcome = "200"
          /\ \A i \in 1..Len(calls[k].added) :
                Strip(OrEmpty(calls[k].added[i].OriginalTxnId)) = calls[k].oid
    /\ \A i \in 1..Len(results) :
          \E j \in 1..Len(oids) : Strip(OrEmpty(results[i].OriginalTxnId)) = oids[j]
    /\ pc \in {"done", "raised"} =>
          \A k \in 1..Len(calls) :
              (calls[k].kind = "direct" /\ calls[k].outcome # "200") =>
                  \A shp \in {"0", "1"} :
                      \E m \in (k + 1)..Len(calls) :
                          FullScanEndingAt(m, calls[k].oid, shp)

\* The cleaned identifier list names no identifier twice.
DistinctOids ==
    LET clean == CleanOids(oids)
    IN  \A i, j \in 1..Len(clean) : i # j => clean[i] # clean[j]

\* C11: when the identifiers passed are distinct, fetch_orders_by_oids adds
\* each order of the remote service to results at most once, whatever the
\* outcomes of the direct calls and of the fallback scan; no order is in
\* results both from the direct path and from the fallback path.
C11_AddedOnce ==
    DistinctOids =>
        \A i, j \in 1..Len(results) : i # j => results[i].n # results[j].n

-----------------------------------------------------------------------------
(* Properties of the session (SpecSession) *)

DaysBatch   == IF ListTruthy(orders_days_raw) THEN orders_days_raw.v ELSE <<>>
SearchBatch == IF ListTruthy(orders_search_raw) THEN orders_search_raw.v ELSE <<>>
Combined    == AllOrders(orders_days_raw, orders_search_raw)
GroupedNow  == group_by_original_txn(Combined)

TrimmedId(o) == Strip(OrEmpty(o.OriginalTxnId))

RowsFor(rows, K)   == {i \in 1..Len(rows) : rows[i].OriginalTxnId = K}
GroupsFor(grouped, K) == {i \in 1..Len(grouped) : grouped[i].key = K}

\* C1: when both batches hold orders whose trimmed OriginalTxnId is K
\* (non-empty), there is a single group for K, holding the date-window
\* members and then the search members, and the freshly built rows hold
\* exactly one row for K; no two displayed rows ever share an OriginalTxnId.
C1_Dedup ==
    /\ \A K \in {TrimmedId(Combined[i]) : i \in 1..Len(Combined)} :
          (K # <<>> /\ Matching(DaysBatch, K) # <<>> /\ Matching(SearchBatch, K) # <<>>) =>
              /\ Cardinality(GroupsFor(GroupedNow, K)) = 1
              /\ GroupGet(GroupedNow, K) = Matching(DaysBatch, K) \o Matching(SearchBatch, K)
              /\ Cardinality(RowsFor(FreshRows(GroupedNow), K)) = 1
    /\ \A i, j \in 1..Len(table_rows) :
          i # j => table_rows[i].OriginalTxnId # table_rows[j].OriginalTxnId

\* C1 witness: "AB" came by the date window (as "AB ") and by the search
\* (as "AB"), and the freshly built table shows it.
C1_Witness ==
    /\ lastAction = "search"
    /\ table_rows_override = Absent
    /\ Matching(DaysBatch, <<"A", "B">>) # <<>>
    /\ \E i \in 1..Len(SearchBatch) : SearchBatch[i].n = 2
    /\ Len(GroupGet(GroupedNow, <<"A", "B">>)) >= 3
    /\ RowsFor(table_rows, <<"A", "B">>) # {}

\* C2: after a bulk edit the stored override is the displayed row set; after
\* a date-window fetch or an identifier search has completed no override is
\* in force and the displayed rows are the freshly computed ones.
C2_OverrideLifecycle ==
    /\ lastAction = "bulk" => table_rows_override = ListOf(table_rows)
    /\ lastAction \in {"fetch", "search"} =>
          /\ table_rows_override = Absent
          /\ table_rows = IF Combined = <<>> THEN <<>> ELSE FreshRows(GroupedNow)

\* C6: within one generate action, two selected rows with different
\* OriginalTxnId for which a document is produced get different output paths.
C6_DistinctPaths ==
    lastAction = "generate" =>
        \A i, j \in 1..Len(gen_log) :
            (/\ gen_log[i].what = "made" /\ gen_log[j].what = "made"
             /\ gen_log[i].oid # gen_log[j].oid)
                => gen_log[i].out_path # gen_log[j].out_path

\* C7: group_by_original_txn places every order in exactly one group, the
\* one keyed by its trimmed OriginalTxnId, in input order; orders with a
\* missing or blank id go under the empty key, and that group gives no
\* display row, no document and no error.
C7_Partition ==
    /\ \A i, j \in 1..Len(GroupedNow) : i # j => GroupedNow[i].key # GroupedNow[j].key
    /\ \A i \in 1..Len(GroupedNow) :
          /\ GroupedNow[i].members # <<>>
          /\ GroupedNow[i].members =
                SelectSeq(Combined, LAMBDA o : TrimmedId(o) = GroupedNow[i].key)
    /\ \A k \in 1..Len(Combined) : GroupsFor(GroupedNow, TrimmedId(Combined[k])) # {}
    /\ SumOver(LAMBDA e : Len(e.members), GroupedNow) = Len(Combined)
    /\ \A i \in 1..Len(table_rows) : table_rows[i].OriginalTxnId # <<>>
    /\ \A i \in 1..Len(gen_log) : gen_log[i].oid # <<>> /\ gen_log[i].what # "raised"

\* C7 witness: the blank-id and the missing-id order sit together under the
\* empty key while documents were generated for the other groups.
C7_Witness ==
    /\ lastAction = "generate"
    /\ Len(GroupGet(GroupedNow, <<>>)) >= 2
    /\ \E i \in 1..Len(GroupGet(GroupedNow, <<>>)) :
          GroupGet(GroupedNow, <<>>)[i].OriginalTxnId = NoStr
    /\ made_files # <<>>
    /\ table_rows # <<>>

\* C10: every displayed row's OriginalTxnId is a key of the groups of the
\* current combined orders, so a generate action makes one document per
\* selected row and skips none.
C10_RowsHaveGroups ==
    /\ \A i \in 1..Len(table_rows) :
          GroupsFor(GroupedNow, table_rows[i].OriginalTxnId) # {}
    /\ lastAction = "generate" =>
          /\ \A i \in 1..Len(gen_log) : gen_log[i].what = "made"
          /\ Len(made_files) = Len(gen_log)

====
